---- MODULE Spec2Model ----
(***************************************************************************)
(* DripAdminImpl (src/src/implementations/drip-admin.ts): the client-side  *)
(* admin of the Drip vault program.  Every public method is modelled.  An  *)
(* asynchronous method runs its synchronous prefix when it is called and   *)
(* then one step per await that can let other calls run: the build of the  *)
(* proto config transaction, the answer of the account fetch, the answer   *)
(* of the blockhash request, the invocation of sendAndConfirm and its      *)
(* settling.  Calls of several clients interleave at each of them.         *)
(***************************************************************************)
EXTENDS Integers, Sequences, FiniteSets, TLC

VARIABLES
    calls,      \* every method call made so far, in the order the calls started
    sent,       \* what provider.sendAndConfirm was handed, in invocation order
    accounts,   \* the on-chain accounts that exist: <<network, address>>
    keysMade    \* how many times Keypair.generate() ran

vars == <<calls, sent, accounts, keysMade>>

\* Bounds of the model: the number of calls of getInitVaultProtoConfigPreview
\* and of the asynchronous methods in one behaviour.
MaxPreviews == 1
MaxCalls == 2

\* Bound of the model: the number of network requests that fail in one
\* behaviour.
MaxFaults == 1

----------------------------------------------------------------------------
(* Values *)

None == [none |-> TRUE]

\* A PublicKey object / a base58 string naming the same 32 bytes.
PK(n) == [pk |-> n]
B58(n) == [b58 |-> n]

\* utils.toPubkey: an Address (PublicKey or base58 string) as a PublicKey.
toPubkey(a) == IF "b58" \in DOMAIN a THEN PK(a.b58) ELSE a

\* A program-derived address: the seeds hashed under the program id.
PDA(programId, seeds) == [program |-> programId, seeds |-> seeds]

\* Seeds that are not addresses: a string's bytes, a number's bytes.
Utf8(str) == [utf8 |-> str]
U64(n) == [u64 |-> n]

Networks == {"Mainnet", "Devnet"}

\* config: Configs[network].vaultProgramId
Configs(network) ==
    IF network = "Mainnet"
    THEN [vaultProgramId |-> PK(0)]     \* PublicKey.default
    ELSE [vaultProgramId |-> PK(9)]

\* A DripAdminImpl instance: its provider's wallet and its network.
Clients ==
    { [wallet |-> PK(11), network |-> "Devnet"],
      [wallet |-> PK(12), network |-> "Devnet"] }

\* constructor: this.vaultProgram.programId
ProgramIdOf(client) == Configs(client.network).vaultProgramId

\* SystemProgram.programId is the all-zero key, as PublicKey.default is.
SystemProgram == [programId |-> PK(0)]
TOKEN_PROGRAM_ID == PK(2)
ASSOCIATED_TOKEN_PROGRAM_ID == PK(3)
SYSVAR_RENT_PUBKEY == PK(4)

\* Keypair.generate(): the n-th keypair of the run.
KeypairGenerate(n) == [publicKey |-> PK(100 + n), secretKey |-> n]

\* Decimal digits of a natural number (Number.prototype.toString).
RECURSIVE toString(_)
toString(n) == IF n < 10 THEN <<n>> ELSE Append(toString(n \div 10), n % 10)

\* new BN(string): the number a decimal string denotes.
RECURSIVE BN(_)
BN(s) == IF Len(s) = 0 THEN 0
         ELSE 10 * BN(SubSeq(s, 1, Len(s) - 1)) + s[Len(s)]

\* InitVaultProtoConfigParams the callers pass.
ProtoParams ==
    { [granularity |-> 60, tokenADripTriggerSpread |-> 5,
       tokenBWithdrawalSpread |-> 7, admin |-> PK(21)],
      [granularity |-> 3600, tokenADripTriggerSpread |-> 10,
       tokenBWithdrawalSpread |-> 0, admin |-> B58(22)] }

\* InitVaultParams the callers pass: two vaults, the mints swapped.
VaultParams ==
    { [tokenAMint |-> PK(31), tokenBMint |-> PK(32), protoConfig |-> PK(41),
       tokenBFeeTreasury |-> PK(51), maxSlippageBps |-> 100,
       whitelistedSwaps |-> <<PK(61)>>],
      [tokenAMint |-> B58(32), tokenBMint |-> PK(31), protoConfig |-> PK(41),
       tokenBFeeTreasury |-> PK(52), maxSlippageBps |-> 200,
       whitelistedSwaps |-> <<B58(61), PK(62)>>] }

Blockhashes == {71, 72}

\* Errors the network can raise at each awaited request.
FetchError == [name |-> "Error", at |-> "fetchNullable"]
BlockhashError == [name |-> "Error", at |-> "getLatestBlockhash"]
SendError == [name |-> "Error", at |-> "sendAndConfirm"]

----------------------------------------------------------------------------
(* Pure parts of the methods *)

\* previews.isInitVaultProtoConfigPreview: the params carry a keypair.
isInitVaultProtoConfigPreview(params) ==
    "vaultProtoConfigKeypair" \in DOMAIN params

\* Mutant: the preview with its admin normalised to a PublicKey.
InitVaultProtoConfigPreview_Normalised(params, vaultProtoConfigKeypair) ==
    [f \in DOMAIN params \cup {"vaultProtoConfigKeypair"} |->
        IF f = "vaultProtoConfigKeypair" THEN vaultProtoConfigKeypair
        ELSE IF f = "admin" THEN toPubkey(params[f])
        ELSE params[f]]

\* { ...params, vaultProtoConfigKeypair }
InitVaultProtoConfigPreview(params, vaultProtoConfigKeypair) ==
    [f \in DOMAIN params \cup {"vaultProtoConfigKeypair"} |->
        IF f = "vaultProtoConfigKeypair" THEN vaultProtoConfigKeypair
        ELSE params[f]]

\* Mutant: the type guard's answer is ignored and a keypair always generated.
ProtoConfigKeypair_AlwaysGenerate(params, n) ==
    [keypair |-> KeypairGenerate(n), generated |-> TRUE]

\* Mutant: one keypair, generated once, serves every plain call.
ProtoConfigKeypair_Cached(params, n) ==
    IF isInitVaultProtoConfigPreview(params)
    THEN [keypair |-> params.vaultProtoConfigKeypair, generated |-> FALSE]
    ELSE [keypair |-> KeypairGenerate(0), generated |-> TRUE]

\* getInitVaultProtoConfigTx, lines 58-60: the keypair of the account to
\* create, and whether Keypair.generate() ran for it (n keypairs exist).
ProtoConfigKeypair(params, n) ==
    IF isInitVaultProtoConfigPreview(params)
    THEN [keypair |-> params.vaultProtoConfigKeypair, generated |-> FALSE]
    ELSE [keypair |-> KeypairGenerate(n), generated |-> TRUE]

\* getInitVaultProtoConfigTx: the transaction of the method builder.
InitVaultProtoConfigTx(client, params, vaultProtoConfigKeypair) ==
    [instructions |-> <<
        [name |-> "initVaultProtoConfig",
         args |-> [granularity |-> BN(toString(params.granularity)),
                   tokenADripTriggerSpread |-> params.tokenADripTriggerSpread,
                   tokenBWithdrawalSpread |-> params.tokenBWithdrawalSpread,
                   admin |-> toPubkey(params.admin)],
         accounts |-> [vaultProtoConfig |-> vaultProtoConfigKeypair.publicKey,
                       creator |-> client.wallet,
                       systemProgram |-> SystemProgram.programId]] >>,
     signers |-> <<vaultProtoConfigKeypair>>,
     feePayer |-> None,
     recentBlockhash |-> None]

\* helpers.findVaultPubkey: the vault's address, derived from the mints and
\* the proto config under the program id.
findVaultPubkey(programId, params) ==
    PDA(programId, <<Utf8("drip-v1"), toPubkey(params.tokenAMint),
                     toPubkey(params.tokenBMint), toPubkey(params.protoConfig)>>)

\* helpers.findVaultPeriodPubkey: the address of a period of a vault.
findVaultPeriodPubkey(programId, seeds) ==
    PDA(programId, <<Utf8("vault_period"), toPubkey(seeds.vault),
                     U64(seeds.periodId)>>)

\* spl-token getAssociatedTokenAddress(mint, owner, allowOwnerOffCurve, ...)
getAssociatedTokenAddress(mint, owner, tokenProgram, ataProgram) ==
    PDA(ataProgram, <<owner, tokenProgram, mint>>)

\* constants.ZERO
ZERO == 0

\* Mutant: the provider's wallet is one more seed of the address.
VaultPubkeyOf_PerWallet(client, params) ==
    PDA(ProgramIdOf(client),
        <<client.wallet, findVaultPubkey(ProgramIdOf(client), params)>>)

\* getInitVaultTx, line 101: the address whose account is fetched.
VaultPubkeyOf(client, params) == findVaultPubkey(ProgramIdOf(client), params)

\* Mutant: the fetched account is compared with undefined, which
\* fetchNullable never returns, so the call never throws.
VaultAlreadyExists_Never(vaultAccount) == FALSE

\* getInitVaultTx, line 104: the fetched account makes the call throw.
VaultAlreadyExists(vaultAccount) == vaultAccount # None

VaultAlreadyExistsError(vaultPubkey) ==
    [name |-> "VaultAlreadyExistsError", vaultPubkey |-> vaultPubkey]

\* whitelistedSwaps.map(toPubkey)
MapToPubkey(s) == [k \in DOMAIN s |-> toPubkey(s[k])]

\* getInitVaultTx, lines 114-127: the initVaultPeriod instruction.
InitVaultPeriodIx(client, params, vaultPubkey) ==
    LET vaultGenesisPeriodId == ZERO
        vaultGenesisPeriodPubkey ==
            findVaultPeriodPubkey(ProgramIdOf(client),
                [vault |-> vaultPubkey, periodId |-> vaultGenesisPeriodId])
    IN [name |-> "initVaultPeriod",
        args |-> [periodId |-> vaultGenesisPeriodId],
        accounts |-> [vaultPeriod |-> vaultGenesisPeriodPubkey,
                      vault |-> vaultPubkey,
                      tokenAMint |-> params.tokenAMint,
                      tokenBMint |-> params.tokenBMint,
                      vaultProtoConfig |-> params.protoConfig,
                      creator |-> client.wallet,
                      systemProgram |-> SystemProgram.programId]]

\* getInitVaultTx, lines 129-165: the initVault instruction.
InitVaultIx(client, params, vaultPubkey) ==
    LET tokenAAccount ==
            getAssociatedTokenAddress(toPubkey(params.tokenAMint), vaultPubkey,
                TOKEN_PROGRAM_ID, ASSOCIATED_TOKEN_PROGRAM_ID)
        tokenBAccount ==
            getAssociatedTokenAddress(toPubkey(params.tokenBMint), vaultPubkey,
                TOKEN_PROGRAM_ID, ASSOCIATED_TOKEN_PROGRAM_ID)
    IN [name |-> "initVault",
        args |-> [maxSlippageBps |-> params.maxSlippageBps,
                  whitelistedSwaps |-> MapToPubkey(params.whitelistedSwaps)],
        accounts |-> [vault |-> vaultPubkey,
                      vaultProtoConfig |-> params.protoConfig,
                      tokenAAccount |-> tokenAAccount,
                      tokenBAccount |-> tokenBAccount,
                      treasuryTokenBAccount |-> params.tokenBFeeTreasury,
                      tokenAMint |-> params.tokenAMint,
                      tokenBMint |-> params.tokenBMint,
                      creator |-> client.wallet,
                      tokenProgram |-> TOKEN_PROGRAM_ID,
                      associatedTokenProgram |-> ASSOCIATED_TOKEN_PROGRAM_ID,
                      systemProgram |-> SystemProgram.programId,
                      rent |-> SYSVAR_RENT_PUBKEY]]

\* Mutant: the instructions added in the order they were started.
InitVaultTx_PeriodFirst(client, params, vaultPubkey, blockhash) ==
    [instructions |-> Append(Append(<< >>,
                         InitVaultPeriodIx(client, params, vaultPubkey)),
                         InitVaultIx(client, params, vaultPubkey)),
     signers |-> << >>,
     feePayer |-> client.wallet,
     recentBlockhash |-> blockhash]

\* getInitVaultTx, lines 169-174: new Transaction({...}).add(..).add(..)
InitVaultTx(client, params, vaultPubkey, blockhash) ==
    [instructions |-> Append(Append(<< >>,
                         InitVaultIx(client, params, vaultPubkey)),
                         InitVaultPeriodIx(client, params, vaultPubkey)),
     signers |-> << >>,
     feePayer |-> client.wallet,
     recentBlockhash |-> blockhash]

\* getInitVaultTx, lines 176-181: what the method returns.
InitVaultTxWithMetadata(client, params, vaultPubkey, blockhash) ==
    [tx |-> InitVaultTx(client, params, vaultPubkey, blockhash),
     metadata |-> [vaultPubkey |-> vaultPubkey]]

\* getInitVaultProtoConfigTx, lines 77-82: what the method returns.
InitVaultProtoConfigTxWithMetadata(client, params, vaultProtoConfigKeypair) ==
    [tx |-> InitVaultProtoConfigTx(client, params, vaultProtoConfigKeypair),
     metadata |-> [vaultProtoConfigKeypair |-> vaultProtoConfigKeypair]]

\* utils/transaction.makeExplorerUrl
makeExplorerUrl(txHash, network) == [tx |-> txHash, cluster |-> network]

----------------------------------------------------------------------------
(* State *)

Init ==
    /\ calls = << >>
    /\ sent = << >>
    /\ accounts = {}
    /\ keysMade = 0

CallIds == 1..Len(calls)

Finished(c) == c.pc \in {"done", "failed"}

\* The calls that have returned or thrown.
FinishedCalls == {i \in CallIds : Finished(calls[i])}

\* The calls of getInitVaultProtoConfigPreview, and those of the other methods.
PreviewCalls ==
    {i \in CallIds : calls[i].op = "getInitVaultProtoConfigPreview"}
MethodCalls == CallIds \ PreviewCalls

\* A call as it starts.
NewCall(op, client, params) ==
    [op |-> op, client |-> client, params |-> params, pc |-> "start",
     generated |-> None, keypair |-> None, vaultPubkey |-> None,
     io |-> << >>, built |-> None, result |-> None, err |-> None,
     after |-> FinishedCalls, landedBefore |-> {}]

\* The previews earlier calls returned, which a caller can pass on.
ReturnedPreviews ==
    {calls[i].result : i \in PreviewCalls}

ProtoInputs == ProtoParams \cup ReturnedPreviews

\* A network request of a call and what it answered, kept in call order.
Asked(c, request, outcome) ==
    [c EXCEPT !.io = Append(@, [request |-> request, outcome |-> outcome])]

\* The transaction of call c landed on chain.
Landed(c) ==
    \E k \in DOMAIN c.io :
        c.io[k].request.name = "sendAndConfirm" /\ c.io[k].outcome.landed

\* The calls whose transaction has landed.
LandedCalls == {i \in CallIds : Landed(calls[i])}

\* What a method ends with: a value returned, or an error thrown.
Returns(c, value) == [c EXCEPT !.pc = "done", !.result = value]
Throws(c, error) == [c EXCEPT !.pc = "failed", !.err = error]

----------------------------------------------------------------------------
(* The network, as the provider's connection shows it *)

\* The calls a network error ended.
Faults ==
    {i \in CallIds : calls[i].err \in {FetchError, BlockhashError, SendError}}

\* A network request may fail while the behaviour has failures left.
MayFail == Cardinality(Faults) < MaxFaults

\* account.vault.fetchNullable(address): the account, null, or an error.
FetchOutcomes(network, address) ==
    {[ok |-> FALSE, error |-> FetchError] : x \in {y \in {1} : MayFail}}
        \cup {[ok |-> TRUE,
               value |-> IF <<network, address>> \in accounts
                         THEN [address |-> address] ELSE None]}

\* connection.getLatestBlockhash(): a blockhash, or an error.
BlockhashOutcomes ==
    {[ok |-> FALSE, error |-> BlockhashError] : x \in {y \in {1} : MayFail}}
        \cup {[ok |-> TRUE, value |-> [blockhash |-> b]] : b \in Blockhashes}

\* The accounts a transaction creates once the program has executed it.
CreatedBy(tx) ==
    UNION { LET ix == tx.instructions[k]
            IN IF ix.name = "initVaultProtoConfig"
               THEN {ix.accounts.vaultProtoConfig}
               ELSE IF ix.name = "initVault"
               THEN {ix.accounts.vault, ix.accounts.tokenAAccount,
                     ix.accounts.tokenBAccount}
               ELSE {ix.accounts.vaultPeriod}
          : k \in DOMAIN tx.instructions }

\* provider.sendAndConfirm: the signature of the n-th transaction sent, or an
\* error; an error can follow a transaction that did or did not land.
SendOutcomes(n) ==
    {[ok |-> FALSE, error |-> SendError, landed |-> l] :
        l \in {y \in BOOLEAN : MayFail}}
        \cup {[ok |-> TRUE, value |-> [signature |-> n], landed |-> TRUE]}

----------------
(* The methods *)

\* getInitVaultProtoConfigPreview, lines 43-52.
PreviewCall(c, n) ==
    LET vaultProtoConfigKeypair == KeypairGenerate(n)
    IN Returns([c EXCEPT !.generated = vaultProtoConfigKeypair],
               InitVaultProtoConfigPreview(c.params, vaultProtoConfigKeypair))

\* getInitVaultProtoConfigTx, lines 57-60: the synchronous prefix, run when
\* the method is called; the call then waits for the builder (line 62).
ProtoConfigTxCalled(c, n) ==
    LET k == ProtoConfigKeypair(c.params, n)
    IN [c EXCEPT !.generated = IF k.generated THEN k.keypair ELSE None,
                 !.keypair = k.keypair]

\* getInitVaultProtoConfigTx, lines 62-82: the builder's transaction arrived.
ProtoConfigTxBuilt(c) ==
    [c EXCEPT !.built =
        InitVaultProtoConfigTxWithMetadata(c.client, c.params, c.keypair)]

\* getInitVaultTx, line 101 and the request of line 102: the synchronous
\* prefix, run when the method is called.
VaultTxCalled(c) ==
    [c EXCEPT !.vaultPubkey = VaultPubkeyOf(c.client, c.params)]

\* Mutant: lines 104-106 left out, the fetched account is not looked at.
VaultTxFetched_Unchecked(c, fetch) ==
    LET c1 == Asked(c, [name |-> "fetchNullable", address |-> c.vaultPubkey],
                    fetch)
    IN IF ~fetch.ok THEN Throws(c1, fetch.error)
       ELSE [c1 EXCEPT !.pc = "fetched"]

\* getInitVaultTx, lines 102-106: fetchNullable answered.  The call throws,
\* or goes on to build the instructions (lines 108-167) and to request the
\* blockhash (line 170).
VaultTxFetched(c, fetch) ==
    LET c1 == Asked(c, [name |-> "fetchNullable", address |-> c.vaultPubkey],
                    fetch)
    IN IF ~fetch.ok THEN Throws(c1, fetch.error)
       ELSE IF VaultAlreadyExists(fetch.value)
       THEN Throws(c1, VaultAlreadyExistsError(c.vaultPubkey))
       ELSE [c1 EXCEPT !.pc = "fetched"]

\* getInitVaultTx, lines 169-181: getLatestBlockhash answered.
VaultTxBuilt(c, latest) ==
    LET c2 == Asked(c, [name |-> "getLatestBlockhash"], latest)
    IN IF ~latest.ok THEN Throws(c2, latest.error)
       ELSE [c2 EXCEPT !.built =
                InitVaultTxWithMetadata(c.client, c.params, c.vaultPubkey,
                                        latest.value.blockhash)]

\* Mutant: every method that builds a transaction also sends it.
Broadcasts_All(op) == TRUE

\* The methods that hand their transaction to provider.sendAndConfirm
\* (lines 89 and 188).
Broadcasts(op) == op \in {"initVaultProtoConfig", "initVault"}

\* A get...Tx method returns what it built; an init... method goes on to send.
AfterBuild(c) ==
    IF Finished(c) THEN c
    ELSE IF Broadcasts(c.op) THEN [c EXCEPT !.pc = "built"]
    ELSE Returns(c, c.built)

\* The arguments of provider.sendAndConfirm at lines 89 and 188.
SendArgs(c) ==
    [tx |-> c.built.tx,
     signers |-> IF c.op = "initVaultProtoConfig"
                 THEN <<c.built.metadata.vaultProtoConfigKeypair>>
                 ELSE << >>]

\* Mutant: a failed sendAndConfirm is caught and the transaction sent again.
AfterSend_Retry(c, outcome) ==
    LET c1 == Asked(c, [name |-> "sendAndConfirm"], outcome)
    IN IF ~outcome.ok THEN [c1 EXCEPT !.pc = "built"]
       ELSE LET txHash == outcome.value
            IN Returns(c1, [id |-> txHash,
                            explorer |-> makeExplorerUrl(txHash, c.client.network),
                            metadata |-> c.built.metadata])

\* initVaultProtoConfig / initVault after sendAndConfirm settled
\* (lines 89-95 and 188-194).
AfterSend(c, outcome) ==
    LET c1 == Asked(c, [name |-> "sendAndConfirm"], outcome)
    IN IF ~outcome.ok THEN Throws(c1, outcome.error)
       ELSE LET txHash == outcome.value
            IN Returns(c1, [id |-> txHash,
                            explorer |-> makeExplorerUrl(txHash, c.client.network),
                            metadata |-> c.built.metadata])

----------------------------------------------------------------------------
(* Actions *)

GetInitVaultProtoConfigPreview(client, params) ==
    /\ Cardinality(PreviewCalls) < MaxPreviews
    /\ calls' = Append(calls,
          PreviewCall(NewCall("getInitVaultProtoConfigPreview", client, params),
                      keysMade))
    /\ keysMade' = keysMade + 1
    /\ UNCHANGED <<sent, accounts>>

\* getInitVaultProtoConfigTx is called, directly or at line 88 of
\* initVaultProtoConfig.
StartProtoConfig(op, client, params) ==
    /\ Cardinality(MethodCalls) < MaxCalls
    /\ LET c == ProtoConfigTxCalled(NewCall(op, client, params), keysMade)
       IN /\ calls' = Append(calls, c)
          /\ keysMade' = IF c.generated # None THEN keysMade + 1 ELSE keysMade
    /\ UNCHANGED <<sent, accounts>>

GetInitVaultProtoConfigTx(client, params) ==
    StartProtoConfig("getInitVaultProtoConfigTx", client, params)

InitVaultProtoConfig(client, params) ==
    StartProtoConfig("initVaultProtoConfig", client, params)

\* The await of lines 62-75 resumes: getInitVaultProtoConfigTx returns.
ProtoConfigTxReturns(i) ==
    /\ calls[i].pc = "start"
    /\ calls[i].op \in {"getInitVaultProtoConfigTx", "initVaultProtoConfig"}
    /\ calls' = [calls EXCEPT ![i] = AfterBuild(ProtoConfigTxBuilt(calls[i]))]
    /\ UNCHANGED <<sent, accounts, keysMade>>

\* getInitVaultTx is called, directly or at line 187 of initVault.
StartVault(op, client, params) ==
    /\ Cardinality(MethodCalls) < MaxCalls
    /\ calls' = Append(calls, VaultTxCalled(NewCall(op, client, params)))
    /\ UNCHANGED <<sent, accounts, keysMade>>

GetInitVaultTx(client, params) == StartVault("getInitVaultTx", client, params)

InitVault(client, params) == StartVault("initVault", client, params)

\* The await of line 102 resumes with what the chain holds now.
FetchAnswered(i) ==
    /\ calls[i].pc = "start"
    /\ calls[i].op \in {"getInitVaultTx", "initVault"}
    /\ \E fetch \in FetchOutcomes(calls[i].client.network,
                                  calls[i].vaultPubkey) :
          calls' = [calls EXCEPT ![i] =
                       [VaultTxFetched(calls[i], fetch)
                           EXCEPT !.landedBefore = LandedCalls]]
    /\ UNCHANGED <<sent, accounts, keysMade>>

\* The await of line 170 resumes: getInitVaultTx returns or throws.
BlockhashAnswered(i) ==
    /\ calls[i].pc = "fetched"
    /\ \E latest \in BlockhashOutcomes :
          calls' = [calls EXCEPT ![i] =
                       AfterBuild(VaultTxBuilt(calls[i], latest))]
    /\ UNCHANGED <<sent, accounts, keysMade>>

\* provider.sendAndConfirm is invoked (lines 89 and 188).
SendAndConfirm(i) ==
    /\ calls[i].pc = "built"
    /\ sent' = Append(sent, [call |-> i] @@ SendArgs(calls[i]))
    /\ calls' = [calls EXCEPT ![i].pc = "sent"]
    /\ UNCHANGED <<accounts, keysMade>>

\* The position of call i's transaction in the log of sent ones.
SentIndex(i) == CHOOSE n \in DOMAIN sent : sent[n].call = i

\* provider.sendAndConfirm settles and the method returns or throws.
Confirm(i) ==
    /\ calls[i].pc = "sent"
    /\ \E outcome \in SendOutcomes(SentIndex(i)) :
          /\ calls' = [calls EXCEPT ![i] = AfterSend(calls[i], outcome)]
          /\ accounts' = IF outcome.landed
                         THEN accounts \cup
                              {<<calls[i].client.network, a>> :
                                  a \in CreatedBy(calls[i].built.tx)}
                         ELSE accounts
    /\ UNCHANGED <<sent, keysMade>>

Next ==
    \/ \E client \in Clients, params \in ProtoInputs :
          GetInitVaultProtoConfigPreview(client, params)
    \/ \E client \in Clients, params \in ProtoInputs :
          GetInitVaultProtoConfigTx(client, params)
    \/ \E client \in Clients, params \in ProtoInputs :
          InitVaultProtoConfig(client, params)
    \/ \E i \in CallIds : ProtoConfigTxReturns(i)
    \/ \E client \in Clients, params \in VaultParams :
          GetInitVaultTx(client, params)
    \/ \E client \in Clients, params \in VaultParams :
          InitVault(client, params)
    \/ \E i \in CallIds : FetchAnswered(i)
    \/ \E i \in CallIds : BlockhashAnswered(i)
    \/ \E i \in CallIds : SendAndConfirm(i)
    \/ \E i \in CallIds : Confirm(i)

Spec == Init /\ [][Next]_vars

NextProto ==
    \/ \E client \in Clients, params \in ProtoInputs :
          GetInitVaultProtoConfigPreview(client, params)
    \/ \E client \in Clients, params \in ProtoInputs :
          GetInitVaultProtoConfigTx(client, params)
    \/ \E client \in Clients, params \in ProtoInputs :
          InitVaultProtoConfig(client, params)
    \/ \E i \in CallIds : ProtoConfigTxReturns(i)
    \/ \E i \in CallIds : SendAndConfirm(i)
    \/ \E i \in CallIds : Confirm(i)

SpecProto == Init /\ [][NextProto]_vars

NextVault ==
    \/ \E client \in Clients, params \in VaultParams :
          GetInitVaultTx(client, params)
    \/ \E client \in Clients, params \in VaultParams :
          InitVault(client, params)
    \/ \E i \in CallIds : FetchAnswered(i)
    \/ \E i \in CallIds : BlockhashAnswered(i)
    \/ \E i \in CallIds : SendAndConfirm(i)
    \/ \E i \in CallIds : Confirm(i)

SpecVault == Init /\ [][NextVault]_vars

----------------------------------------------------------------------------
(* Vocabulary of the properties *)

IsVaultCall(i) == calls[i].op \in {"getInitVaultTx", "initVault"}
IsProtoCall(i) ==
    calls[i].op \in {"getInitVaultProtoConfigTx", "initVaultProtoConfig"}

\* The invocations of sendAndConfirm made by call i.
Sends(i) == {n \in DOMAIN sent : sent[n].call = i}

\* The account fetch of call c answered, and with an account / with null.
FetchReturnedAccount(c) ==
    /\ Len(c.io) >= 1
    /\ c.io[1].outcome.ok
    /\ c.io[1].outcome.value # None
FetchReturnedNull(c) ==
    /\ Len(c.io) >= 1
    /\ c.io[1].outcome.ok
    /\ c.io[1].outcome.value = None

\* The requests of call c that failed.
FailedRequests(c) == {k \in DOMAIN c.io : ~c.io[k].outcome.ok}

\* The plain parameters inside params (a preview's without its keypair).
Plain(params) ==
    [f \in {"granularity", "tokenADripTriggerSpread",
            "tokenBWithdrawalSpread", "admin"} |-> params[f]]

\* The account an initVaultProtoConfig transaction creates.
ProtoConfigTarget(c) == c.built.tx.instructions[1].accounts.vaultProtoConfig

\* The calls that the step starts or moves on.
Stepping == {i \in DOMAIN calls' : i \notin DOMAIN calls \/ calls'[i] # calls[i]}

\* The step belongs to a call of one of the given methods.
StepOf(ops) == \E i \in Stepping : calls'[i].op \in ops

----------------------------------------------------------------------------
(* Properties *)

\* C1: a transaction built or broadcast from a preview P that
\* getInitVaultProtoConfigPreview returned uses P's keypair and generates no
\* other: the vaultProtoConfig account is P's public key, the signer handed
\* to sendAndConfirm is P's keypair, the metadata returns P's keypair, and
\* the account the broadcast transaction creates is the previewed address.
C1_PreviewCommit ==
    \A i \in CallIds :
        (IsProtoCall(i) /\ calls[i].params \in ReturnedPreviews) =>
            LET c == calls[i]
                P == c.params
            IN /\ c.generated = None
               /\ c.keypair = P.vaultProtoConfigKeypair
               /\ c.pc # "start" => c.built # None
               /\ c.built # None =>
                     /\ ProtoConfigTarget(c)
                            = P.vaultProtoConfigKeypair.publicKey
                     /\ c.built.tx.signers = <<P.vaultProtoConfigKeypair>>
                     /\ c.built.metadata.vaultProtoConfigKeypair
                            = P.vaultProtoConfigKeypair
               /\ \A n \in Sends(i) :
                     /\ sent[n].tx = c.built.tx
                     /\ sent[n].signers = <<P.vaultProtoConfigKeypair>>
                     /\ CreatedBy(sent[n].tx)
                            = {P.vaultProtoConfigKeypair.publicKey}
               /\ c.pc = "done" =>
                     c.result.metadata.vaultProtoConfigKeypair
                         = P.vaultProtoConfigKeypair

\* C1 happens: initVaultProtoConfig(P) returned and the account exists at the
\* address of the preview.
C1_Witness ==
    \E i \in CallIds :
        /\ calls[i].op = "initVaultProtoConfig"
        /\ calls[i].params \in ReturnedPreviews
        /\ calls[i].pc = "done"
        /\ <<calls[i].client.network,
             calls[i].params.vaultProtoConfigKeypair.publicKey>> \in accounts

\* C2: when the fetch of getInitVaultTx / initVault returns an account, the
\* call throws VaultAlreadyExistsError with the derived address, builds and
\* returns nothing, and never invokes sendAndConfirm.
C2_FetchBeforeCreate ==
    \A i \in CallIds :
        (IsVaultCall(i) /\ FetchReturnedAccount(calls[i])) =>
            LET c == calls[i]
            IN /\ c.io[1].request.address
                      = findVaultPubkey(ProgramIdOf(c.client), c.params)
               /\ c.pc = "failed"
               /\ c.err = VaultAlreadyExistsError(
                              findVaultPubkey(ProgramIdOf(c.client), c.params))
               /\ c.built = None
               /\ c.result = None
               /\ Len(c.io) = 1
               /\ Sends(i) = {}

\* C2 happens: an initVault call found the vault created by an earlier call.
C2_Witness ==
    \E i \in CallIds :
        /\ calls[i].op = "initVault"
        /\ FetchReturnedAccount(calls[i])
        /\ calls[i].pc = "failed"

\* Calls i and j are initVault calls of the same vault: equal params under
\* the same program.
SameVault(i, j) ==
    /\ calls[i].op = "initVault"
    /\ calls[j].op = "initVault"
    /\ calls[i].params = calls[j].params
    /\ calls[i].client.network = calls[j].client.network

\* C3 as stated: of non-overlapping initVault calls with the same params at
\* most one broadcasts, and a call that starts after a successful one ends
\* with VaultAlreadyExistsError.
C3_Original ==
    \A i, j \in CallIds :
        (SameVault(i, j) /\ i \in calls[j].after) =>
            /\ ~(Sends(i) # {} /\ Sends(j) # {})
            /\ (calls[i].pc = "done" /\ Finished(calls[j])) =>
                   calls[j].err = VaultAlreadyExistsError(calls[j].vaultPubkey)

\* The state part of C3 as amended.
C3_State ==
    \A i, j \in CallIds :
        (SameVault(i, j) /\ i \in calls[j].after /\ calls[i].pc = "done") =>
            LET c == calls[j]
            IN /\ Sends(j) = {}
               /\ c.pc \in {"start", "failed"}
               /\ c.built = None
               /\ c.result = None
               /\ c.pc = "failed" =>
                     IF FetchReturnedAccount(c)
                     THEN c.err = VaultAlreadyExistsError(c.vaultPubkey)
                     ELSE /\ FailedRequests(c) = {1}
                          /\ c.err = c.io[1].outcome.error

\* The step part of C3 as amended: no step of an initVault call that
\* started after a successful initVault of the same vault returned changes
\* an account or sends anything.
C3_Step ==
    (\E j \in Stepping : \E i \in calls'[j].after :
        /\ calls'[j].op = "initVault"
        /\ calls[i].op = "initVault"
        /\ calls[i].pc = "done"
        /\ calls[i].params = calls'[j].params
        /\ calls[i].client.network = calls'[j].client.network)
        => UNCHANGED <<accounts, sent>>

\* C3 (amended): of non-overlapping initVault calls with the same params at
\* most one has its sendAndConfirm succeed, while a call whose broadcast
\* failed can be followed by another broadcast; every initVault(params) that
\* starts after a successful initVault(params) returned fails without
\* invoking sendAndConfirm, with VaultAlreadyExistsError when its fetch
\* answers and with the fetch's error otherwise, and leaves the chain
\* unchanged.
C3_SequentialIdempotent == []C3_State /\ [][C3_Step]_vars

\* C3 happens: an initVault returned and a later initVault of the same vault
\* by the other client failed with VaultAlreadyExistsError.
C3_Witness ==
    \E i, j \in CallIds :
        /\ SameVault(i, j)
        /\ i \in calls[j].after
        /\ calls[i].pc = "done"
        /\ calls[i].client # calls[j].client
        /\ calls[j].err = VaultAlreadyExistsError(calls[i].vaultPubkey)

\* C4: the vault address depends on the program id and the params only, so
\* calls with equal params under one program compute one address whatever
\* the wallet, the chain, the blockhash or the calls before; and in one call
\* the address fetched, the vault account of both instructions, the seed of
\* the genesis period address, the address of the error and
\* metadata.vaultPubkey are that address.
C4_DeterministicAddress ==
    /\ \A i, j \in CallIds :
          (/\ IsVaultCall(i) /\ IsVaultCall(j)
           /\ calls[i].params = calls[j].params
           /\ ProgramIdOf(calls[i].client) = ProgramIdOf(calls[j].client))
              => calls[i].vaultPubkey = calls[j].vaultPubkey
    /\ \A i \in CallIds :
          IsVaultCall(i) =>
              LET c == calls[i]
                  v == c.vaultPubkey
              IN /\ v = findVaultPubkey(ProgramIdOf(c.client), c.params)
                 /\ Len(c.io) >= 1 => c.io[1].request.address = v
                 /\ c.err \in {None, FetchError, BlockhashError, SendError,
                               VaultAlreadyExistsError(v)}
                 /\ c.built # None =>
                       LET ixs == c.built.tx.instructions
                       IN /\ \A k \in DOMAIN ixs : ixs[k].accounts.vault = v
                          /\ \E k \in DOMAIN ixs :
                                /\ ixs[k].name = "initVaultPeriod"
                                /\ ixs[k].accounts.vaultPeriod =
                                    findVaultPeriodPubkey(ProgramIdOf(c.client),
                                        [vault |-> v, periodId |-> ZERO])
                          /\ c.built.metadata.vaultPubkey = v
                 /\ c.pc = "done" => c.result.metadata.vaultPubkey = v

\* C4 happens: two clients built the transaction of the same params over
\* different chain states and blockhashes, for one address.
C4_Witness ==
    \E i, j \in CallIds :
        /\ IsVaultCall(i) /\ IsVaultCall(j)
        /\ calls[i].params = calls[j].params
        /\ calls[i].client.wallet # calls[j].client.wallet
        /\ calls[i].built # None /\ calls[j].built # None
        /\ calls[i].built.tx.recentBlockhash # calls[j].built.tx.recentBlockhash
        /\ calls[j].after # calls[i].after
        /\ calls[i].vaultPubkey = calls[j].vaultPubkey

\* C5: in initVault and initVaultProtoConfig a failed account fetch,
\* blockhash fetch or sendAndConfirm ends the call with that error and no
\* result, nothing is requested after it, and sendAndConfirm is invoked at
\* most once per call and not at all after an earlier failure.
C5_ErrorsPropagate ==
    \A i \in CallIds :
        Broadcasts(calls[i].op) =>
            LET c == calls[i]
            IN /\ Cardinality(Sends(i)) <= 1
               /\ \A k \in FailedRequests(c) :
                     /\ k = Len(c.io)
                     /\ c.pc = "failed"
                     /\ c.err = c.io[k].outcome.error
                     /\ c.result = None
                     /\ c.io[k].request.name # "sendAndConfirm" => Sends(i) = {}
               /\ c.pc = "failed" => c.result = None
               /\ c.pc = "done" => FailedRequests(c) = {}

\* C5 happens: an initVault call lost its blockhash request and an
\* initVaultProtoConfig call or another initVault was sent.
C5_Witness ==
    \E i, j \in CallIds :
        /\ calls[i].op = "initVault"
        /\ calls[i].err = BlockhashError
        /\ Broadcasts(calls[j].op)
        /\ Sends(j) # {}

\* The state part of C6.
C6_State ==
    \A i \in PreviewCalls :
        LET c == calls[i]
        IN /\ c.pc = "done"
           /\ Plain(c.result) = Plain(c.params)
           /\ DOMAIN c.result =
                  DOMAIN Plain(c.params) \cup {"vaultProtoConfigKeypair"}
           /\ c.result.vaultProtoConfigKeypair = c.generated
           /\ c.generated # None
           /\ c.built = None
           /\ c.io = << >>
           /\ Sends(i) = {}

\* The step part of C6: the step of a getInitVaultProtoConfigPreview call
\* sends nothing and changes no account.
C6_Step ==
    StepOf({"getInitVaultProtoConfigPreview"}) => UNCHANGED <<accounts, sent>>

\* C6: getInitVaultProtoConfigPreview returns the granularity, the two
\* spreads and the admin of its params plus a keypair, builds no transaction,
\* makes no network request and no broadcast, and leaves the chain unchanged.
C6_PreviewClientSide == []C6_State /\ [][C6_Step]_vars

\* C6 happens: a preview of plain params was returned while a transaction of
\* another call was on chain.
C6_Witness ==
    \E i \in PreviewCalls :
        /\ calls[i].params \in ProtoParams
        /\ calls[i].pc = "done"
        /\ calls[i].after # {}
        /\ accounts # {}

\* C7: when the fetch finds no vault and the blockhash arrives, the
\* transaction built is initVault followed by initVaultPeriod of period 0,
\* paid by the provider's wallet, and initVault hands exactly this
\* transaction to sendAndConfirm, once.
C7_TwoInstructions ==
    \A i \in CallIds :
        (/\ IsVaultCall(i)
         /\ FetchReturnedNull(calls[i])
         /\ Len(calls[i].io) >= 2
         /\ calls[i].io[2].outcome.ok) =>
            LET c == calls[i]
            IN /\ c.built # None
               /\ Len(c.built.tx.instructions) = 2
               /\ c.built.tx.instructions[1].name = "initVault"
               /\ c.built.tx.instructions[2].name = "initVaultPeriod"
               /\ c.built.tx.instructions[2].args.periodId = 0
               /\ c.built.tx.feePayer = c.client.wallet
               /\ c.built.tx.recentBlockhash = c.io[2].outcome.value.blockhash
               /\ c.op = "getInitVaultTx" =>
                     /\ c.pc = "done"
                     /\ c.result = c.built
                     /\ Sends(i) = {}
               /\ c.op = "initVault" =>
                     /\ Cardinality(Sends(i)) =
                            IF c.pc = "built" THEN 0 ELSE 1
                     /\ \A n \in Sends(i) :
                           sent[n].tx = c.built.tx /\ sent[n].signers = << >>

\* C7 happens: initVault returned after its two-instruction transaction
\* created the vault.
C7_Witness ==
    \E i \in CallIds :
        /\ calls[i].op = "initVault"
        /\ calls[i].pc = "done"
        /\ Len(calls[i].built.tx.instructions) = 2
        /\ <<calls[i].client.network, calls[i].vaultPubkey>> \in accounts

\* The keypairs call i generated, was given or returned.
KeypairsOf(i) ==
    LET c == calls[i]
    IN {c.generated}
       \cup (IF isInitVaultProtoConfigPreview(c.params)
             THEN {c.params.vaultProtoConfigKeypair} ELSE {})
       \cup (IF IsProtoCall(i) THEN {c.keypair} ELSE {})
       \cup (IF IsProtoCall(i) /\ c.built # None
             THEN {c.built.metadata.vaultProtoConfigKeypair} ELSE {})

\* C8: getInitVaultProtoConfigPreview always, and getInitVaultProtoConfigTx /
\* initVaultProtoConfig for params that are no preview, use a keypair
\* generated in the call, different from every keypair of an earlier call; so
\* two initVaultProtoConfig calls with the same plain params target
\* different accounts and two with the same preview target the same one.
C8_FreshKeys ==
    /\ \A i \in CallIds :
          (i \in PreviewCalls \/
           (IsProtoCall(i) /\ calls[i].params \in ProtoParams)) =>
              /\ calls[i].generated # None
              /\ \A j \in 1..(i - 1) : calls[i].generated \notin KeypairsOf(j)
    /\ \A i \in CallIds :
          (/\ IsProtoCall(i)
           /\ calls[i].params \in ProtoParams
           /\ calls[i].built # None) =>
              calls[i].built.metadata.vaultProtoConfigKeypair
                  = calls[i].generated
    /\ \A i, j \in CallIds :
          (/\ i # j
           /\ calls[i].op = "initVaultProtoConfig"
           /\ calls[j].op = "initVaultProtoConfig"
           /\ calls[i].built # None
           /\ calls[j].built # None
           /\ calls[i].params = calls[j].params) =>
              IF calls[i].params \in ProtoParams
              THEN ProtoConfigTarget(calls[i]) # ProtoConfigTarget(calls[j])
              ELSE ProtoConfigTarget(calls[i]) = ProtoConfigTarget(calls[j])

\* C8 happens: a preview and two initVaultProtoConfig calls, all of the same
\* plain params, produced three different keypairs.
C8_Witness ==
    \E p \in PreviewCalls : \E i, j \in CallIds :
        /\ i # j
        /\ calls[i].op = "initVaultProtoConfig"
        /\ calls[j].op = "initVaultProtoConfig"
        /\ calls[i].params = calls[p].params
        /\ calls[j].params = calls[p].params
        /\ calls[p].params \in ProtoParams
        /\ calls[i].pc = "done"
        /\ calls[j].pc = "done"
        /\ ProtoConfigTarget(calls[i]) # ProtoConfigTarget(calls[j])
        /\ Cardinality({calls[p].generated, calls[i].generated,
                        calls[j].generated}) = 3

\* The methods that only build.
Builders ==
    {"getInitVaultProtoConfigPreview", "getInitVaultProtoConfigTx",
     "getInitVaultTx"}

\* The state part of C9.
C9_State ==
    /\ \A n \in DOMAIN sent :
          calls[sent[n].call].op \in {"initVaultProtoConfig", "initVault"}
    /\ \A i \in CallIds :
          calls[i].op \in Builders =>
              /\ calls[i].pc \in {"start", "fetched", "done", "failed"}
              /\ Sends(i) = {}

\* The step part of C9: no step of a call of a building method, returning
\* or throwing, sends anything or changes an account.
C9_Step == StepOf(Builders) => UNCHANGED <<accounts, sent>>

\* C9: sendAndConfirm is invoked by initVaultProtoConfig and initVault only;
\* calls of getInitVaultProtoConfigPreview, getInitVaultProtoConfigTx and
\* getInitVaultTx leave the sent transactions and the accounts unchanged.
C9_BuildingNeverBroadcasts == []C9_State /\ [][C9_Step]_vars

\* C9 happens: getInitVaultTx threw for a vault that exists, after the
\* transaction that created it was sent.
C9_Witness ==
    \E i \in CallIds :
        /\ calls[i].op = "getInitVaultTx"
        /\ calls[i].pc = "failed"
        /\ FetchReturnedAccount(calls[i])
        /\ Len(sent) = 1

\* Calls i and j overlap: neither had finished when the other started.
Overlap(i, j) == i # j /\ i \notin calls[j].after /\ j \notin calls[i].after

\* C10 as stated: of two overlapping initVault calls with the same params at
\* most one reaches sendAndConfirm, and no two sent initVault transactions
\* are for one vault address.
C10_Original ==
    \A i, j \in CallIds :
        (SameVault(i, j) /\ Overlap(i, j)) =>
            ~(Sends(i) # {} /\ Sends(j) # {})

\* C10 (amended): the existence check guards the broadcast only against a
\* vault that exists when the account fetch is answered.  Two initVault
\* calls with the same params both reach sendAndConfirm only when each one's
\* fetch was answered, with null, before the other's transaction landed, as
\* overlapping calls can; a call whose fetch is answered after the other's
\* transaction landed never reaches sendAndConfirm, overlapping or not.
C10_GuardAtFetchTime ==
    \A i, j \in CallIds :
        (SameVault(i, j) /\ i # j) =>
            /\ (Sends(i) # {} /\ Sends(j) # {}) =>
                  /\ i \notin calls[j].landedBefore
                  /\ j \notin calls[i].landedBefore
                  /\ FetchReturnedNull(calls[i])
                  /\ FetchReturnedNull(calls[j])
            /\ i \in calls[j].landedBefore =>
                  /\ Sends(j) = {}
                  /\ calls[j].pc = "failed"
                  /\ ~FetchReturnedNull(calls[j])

\* C10 happens: two overlapping initVault calls of two clients for the same
\* vault were both sent, and one has landed.
C10_Witness ==
    \E i, j \in CallIds :
        /\ SameVault(i, j)
        /\ Overlap(i, j)
        /\ calls[i].client # calls[j].client
        /\ Sends(i) # {}
        /\ Sends(j) # {}
        /\ Landed(calls[i])

====
